---- MODULE Spec2Model ----
(***************************************************************************)
(* Model of sync_server.py: the shared STORE snapshot, its backing file,   *)
(* the LOCK that guards it and the HTTP handlers do_GET / do_POST, each    *)
(* run by one request thread of the ThreadingHTTPServer.                   *)
(***************************************************************************)
EXTENDS Integers, Sequences, FiniteSets, TLC

\* ------------------------------------------------------------------ bounds
MaxRequests == 2
MaxRestarts == 1
MaxClock == 1
MaxAuditRequests == 3

Threads == {"t1", "t2"}

\* ------------------------------------------------------- program constants
HISTORY_MAX == 200
FIELD_MAX == 120

\* --------------------------------------------------------------- strings
\* A Python str is a record: k is the kind of text, n its parameter.
\*   "iso"  the ISO-8601 rendering of clock reading n
\*   "rep"  n repetitions of one character (n = 0: the empty string)
\*   "dec"  the decimal rendering of the integer n
\*   "anon" the literal "ANON";  "repr" the repr of a non-string value
MkStr(k, n) == [k |-> k, n |-> n]
EmptyStr == MkStr("rep", 0)
ANON == MkStr("anon", 0)

StrLen(s) ==
    CASE s.k = "rep" -> s.n
      [] s.k = "iso" -> 32
      [] s.k = "anon" -> 4
      [] OTHER -> 1

\* s[:120]
Truncate(s) ==
    IF s.k = "rep" /\ s.n > FIELD_MAX THEN MkStr("rep", FIELD_MAX) ELSE s

\* ------------------------------------------------------------ JSON values
Absent == [t |-> "absent"]
JNull == [t |-> "null"]
JInt(n) == [t |-> "int", v |-> n]
JStr(s) == [t |-> "str", v |-> s]
JList(q) == [t |-> "list", v |-> q]
\* an opaque JSON object (a client document); id 0 is the empty object {}
JObj(id) == [t |-> "obj", id |-> id]
\* a JSON object whose keys the program reads
StoreDict(rev, updated_at, state, history) ==
    [t |-> "dict", rev |-> rev, updated_at |-> updated_at, state |-> state,
     history |-> history]
BodyDict(state, client, source) ==
    [t |-> "body", state |-> state, client |-> client, source |-> source]

\* isinstance(v, dict) / isinstance(v, list)
IsDict(v) == v.t \in {"dict", "obj", "body"}
IsList(v) == v.t = "list"

\* d.get(key, default) for the keys the program reads
Get(field, default) == IF field.t = "absent" THEN default ELSE field

\* Python truthiness of a JSON value
Falsy(v) ==
    \/ v.t = "null"
    \/ v.t = "int" /\ v.v = 0
    \/ v.t = "str" /\ StrLen(v.v) = 0
    \/ v.t = "list" /\ v.v = <<>>
    \/ v.t = "obj" /\ v.id = 0

\* str(v)
PyStr(v) ==
    CASE v.t = "str" -> v.v
      [] v.t = "int" -> MkStr("dec", v.v)
      [] OTHER -> MkStr("repr", 0)

\* int(v): the integer, or a raised ValueError / TypeError
Raised == [ok |-> FALSE]
Returned(x) == [ok |-> TRUE, val |-> x]
PyInt(v) ==
    CASE v.t = "int" -> Returned(v.v)
      [] v.t = "str" /\ v.v.k = "dec" -> Returned(v.v.n)
      [] OTHER -> Raised

Min(a, b) == IF a < b THEN a ELSE b

\* ------------------------------------------------------------- the store
iso_now(clk) == MkStr("iso", clk)

default_store(clk) ==
    [rev |-> 0, updated_at |-> iso_now(clk), state |-> JObj(0), history |-> <<>>]

HistoryEntry(rev, at, client, source) ==
    [rev |-> rev, at |-> at, client |-> client, source |-> source]

\* variant: the slice keeps one entry too few
normalize_history_short(h) == SubSeq(h, 1, Min(Len(h), HISTORY_MAX - 1))

\* history[:200]
normalize_history(h) == SubSeq(h, 1, Min(Len(h), HISTORY_MAX))

\* variant: the isinstance test of line 35 is missing, raw.get raises
normalize_store_unchecked(raw, clk) ==
    IF raw.t # "dict" THEN Raised
    ELSE
      LET r == Get(raw.rev, JInt(0))
          rev == IF Falsy(r) THEN Returned(0) ELSE PyInt(r)
          u == PyStr(Get(raw.updated_at, JStr(EmptyStr)))
          updated_at == IF StrLen(u) = 0 THEN iso_now(clk) ELSE u
          s == Get(raw.state, JObj(0))
          state == IF IsDict(s) THEN s ELSE JObj(0)
          h == Get(raw.history, JList(<<>>))
          history == IF IsList(h) THEN h.v ELSE <<>>
      IN IF ~rev.ok THEN Raised
         ELSE Returned([rev |-> rev.val, updated_at |-> updated_at,
                        state |-> state,
                        history |-> normalize_history(history)])

\* variant: updated_at is stamped at load time instead of being kept
normalize_store_restamped(raw, clk) ==
    IF raw.t # "dict" THEN Returned(default_store(clk))
    ELSE
      LET r == Get(raw.rev, JInt(0))
          rev == IF Falsy(r) THEN Returned(0) ELSE PyInt(r)
          s == Get(raw.state, JObj(0))
          state == IF IsDict(s) THEN s ELSE JObj(0)
          h == Get(raw.history, JList(<<>>))
          history == IF IsList(h) THEN h.v ELSE <<>>
      IN IF ~rev.ok THEN Raised
         ELSE Returned([rev |-> rev.val, updated_at |-> iso_now(clk),
                        state |-> state,
                        history |-> normalize_history(history)])

normalize_store(raw, clk) ==
    IF raw.t # "dict" THEN Returned(default_store(clk))
    ELSE
      LET r == Get(raw.rev, JInt(0))
          rev == IF Falsy(r) THEN Returned(0) ELSE PyInt(r)
          u == PyStr(Get(raw.updated_at, JStr(EmptyStr)))
          updated_at == IF StrLen(u) = 0 THEN iso_now(clk) ELSE u
          s == Get(raw.state, JObj(0))
          state == IF IsDict(s) THEN s ELSE JObj(0)
          h == Get(raw.history, JList(<<>>))
          history == IF IsList(h) THEN h.v ELSE <<>>
      IN IF ~rev.ok THEN Raised
         ELSE Returned([rev |-> rev.val, updated_at |-> updated_at,
                        state |-> state,
                        history |-> normalize_history(history)])

\* the backing file: missing, text that is no JSON document, or a JSON document
FileMissing == [t |-> "missing"]
FileTruncated == [t |-> "trunc"]
FileJson(v) == [t |-> "json", v |-> v]

read_store(f, clk) ==
    IF f.t = "missing" THEN default_store(clk)
    ELSE IF f.t = "trunc" THEN default_store(clk)
    ELSE LET n == normalize_store(f.v, clk)
         IN IF n.ok THEN n.val ELSE default_store(clk)

\* json.dump(store): the JSON document of a store
Dump(s) == StoreDict(JInt(s.rev), JStr(s.updated_at), s.state, JList(s.history))


\* ------------------------------------------------ inputs: backing files
\* a history of n entries, newest first, for revisions top, top-1, ...
MkHistory(n, top) ==
    [i \in 1..n |-> HistoryEntry(top - i + 1, iso_now(0), ANON, EmptyStr)]

\* a file as _write_store leaves it after `rev` upserts, n of them in history
WrittenFile(rev, n) ==
    FileJson(Dump([rev |-> rev, updated_at |-> iso_now(0), state |-> JObj(1),
                   history |-> MkHistory(n, rev)]))

InitFiles ==
    { FileMissing,
      FileTruncated,
      \* {}: an object missing every expected field
      FileJson(StoreDict(Absent, Absent, Absent, Absent)),
      \* files the program wrote
      WrittenFile(1, 1),
      WrittenFile(HISTORY_MAX - 1, HISTORY_MAX - 1),
      WrittenFile(HISTORY_MAX + 3, HISTORY_MAX),
      \* files written by something else
      FileJson(StoreDict(JInt(HISTORY_MAX + 1), JStr(iso_now(0)), JObj(1),
                         JList(MkHistory(HISTORY_MAX + 1, HISTORY_MAX + 1)))),
      FileJson(StoreDict(Absent, JStr(EmptyStr), JList(<<>>),
                         JList(MkHistory(1, 5)))) }

\* ---------------------------------------------------- inputs: requests
BadLength == [t |-> "badlen"]
NotJson == [t |-> "trunc"]

Bodies ==
    { NotJson, JList(<<>>),
      BodyDict(Absent, JStr(MkStr("rep", 1)), Absent),
      BodyDict(JList(<<>>), Absent, Absent),
      BodyDict(JObj(1), Absent, Absent),
      BodyDict(JObj(2), JStr(MkStr("rep", FIELD_MAX + 1)), JStr(MkStr("rep", 3))) }

Request(m, path, body) == [m |-> m, path |-> path, body |-> body]
NoBody == [t |-> "nobody"]
NoRequest == Request("none", "", NoBody)

Requests ==
    { Request("GET", p, NoBody) :
        p \in {"/api/ping", "/api/state", "/api/history", "/other"} }
    \cup { Request("POST", "/api/state", b) : b \in Bodies }
    \cup { Request("POST", "/other", BodyDict(JObj(1), Absent, Absent)) }

\* _read_json: the decoded body when it is an object, else None
read_json(body) ==
    IF body.t \in {"badlen", "trunc"} THEN JNull
    ELSE IF IsDict(body) THEN body ELSE JNull

EmptyBody(data) ==
    data.t = "body" /\ data.state = Absent /\ data.client = Absent
                    /\ data.source = Absent

\* variant: any state field is accepted, the isinstance test is dropped
ValidPayload_any_state(data) ==
    /\ data.t = "body"
    /\ data.state.t # "absent"

\* the negation of line 133: data and isinstance(data.get("state"), dict)
ValidPayload(data) ==
    /\ data.t = "body"
    /\ ~EmptyBody(data)
    /\ IsDict(Get(data.state, JNull))

\* ---------------------------------------------------------------- state
VARIABLES
    STORE,      \* the module-level snapshot dict
    LOCK,       \* "free" or the thread holding threading.Lock
    file,       \* content of STORE_PATH
    tmp,        \* content of STORE_PATH.tmp
    clock,      \* the wall clock iso_now reads
    pc,         \* each request thread's position in its handler
    req,        \* the request each thread is handling
    loc,        \* each thread's local variables
    resp,       \* the last response each thread sent
    nreq,       \* requests received so far
    boots,      \* restarts of the process so far
    initFile,   \* history: the backing file the first start found
    loaded,     \* history: the snapshot line 65 loaded at the last start
    log,        \* history: the upserts granted LOCK since the last start
    persisted,  \* history: the snapshot last loaded from or renamed into file
    lastAck,    \* history: the last acknowledged upsert not yet overwritten
    audit,      \* whether the responses served are recorded in `served`
    served,     \* history: the (revision, document) pairs served, in order
    nfile,      \* normalisation: the file content given to the functions
    nnorm,      \* normalisation: the results of _normalize_store, in order
    nload       \* normalisation: the result of _read_store

\* what no handler step changes
fixed == <<audit, nfile, nnorm, nload>>

vars == <<STORE, LOCK, file, tmp, clock, pc, req, loc, resp, nreq, boots,
          initFile, loaded, log, persisted, lastAck, served, fixed>>

Free == "free"
NoLoc == [t |-> "none"]
NoResp == [status |-> 0, rev |-> Absent, updated_at |-> Absent,
           state |-> Absent, history |-> Absent]
Response(status, rev, updated_at, state, history) ==
    [status |-> status, rev |-> rev, updated_at |-> updated_at,
     state |-> state, history |-> history]
ErrorResponse(status) == Response(status, Absent, Absent, Absent, Absent)
NoAck == [t |-> "none"]
\* a revision a client was told, with the document it was told for it
\* (Absent for a ping)
Served(rev, state) == [rev |-> rev.v, state |-> state]
Triple(s) == [t |-> "triple", rev |-> s.rev, updated_at |-> s.updated_at,
              state |-> s.state]

\* line 65: the module is imported with f as the backing file
Boot(f) ==
    /\ file = f
    /\ clock = 0
    /\ STORE = read_store(f, 0)
    /\ LOCK = Free
    /\ tmp = FileMissing
    /\ pc = [t \in Threads |-> "idle"]
    /\ req = [t \in Threads |-> NoRequest]
    /\ loc = [t \in Threads |-> NoLoc]
    /\ resp = [t \in Threads |-> NoResp]
    /\ nreq = 0
    /\ boots = 0
    /\ initFile = f
    /\ loaded = read_store(f, 0)
    /\ log = <<>>
    /\ persisted = read_store(f, 0)
    /\ lastAck = NoAck
    /\ served = <<>>

NotLoaded == [t |-> "none"]

\* the normalisation functions are not being exercised
NormalizeIdle ==
    /\ nfile = FileMissing
    /\ nnorm = <<>>
    /\ nload = NotLoaded

Init ==
    /\ \E f \in InitFiles : Boot(f)
    /\ audit = FALSE
    /\ NormalizeIdle

\* the clock advances
Tick ==
    /\ clock < MaxClock
    /\ clock' = clock + 1
    /\ UNCHANGED <<STORE, LOCK, file, tmp, pc, req, loc, resp, nreq, boots,
                   initFile, loaded, log, persisted, lastAck,
                   served, fixed>>

\* the server hands a request to a handler thread
Receive(t) ==
    /\ pc[t] = "idle"
    /\ nreq < (IF audit THEN MaxAuditRequests ELSE MaxRequests)
    /\ \E r \in Requests :
         /\ req' = [req EXCEPT ![t] = r]
         /\ pc' = [pc EXCEPT ![t] = IF r.m = "GET" THEN "get" ELSE "post"]
    /\ resp' = [resp EXCEPT ![t] = NoResp]
    /\ loc' = [loc EXCEPT ![t] = NoLoc]
    /\ nreq' = nreq + 1
    /\ UNCHANGED <<STORE, LOCK, file, tmp, clock, boots, initFile, loaded, log, persisted,
                   lastAck,
                   served, fixed>>


\* the handler returns: its thread ends, the response has been delivered
Return(t) ==
    /\ pc' = [pc EXCEPT ![t] = "idle"]
    /\ req' = [req EXCEPT ![t] = NoRequest]
    /\ loc' = [loc EXCEPT ![t] = NoLoc]
    /\ resp' = [resp EXCEPT ![t] = NoResp]

\* --------------------------------------------------------------- do_GET
GetPaths == {"/api/ping", "/api/state", "/api/history"}
GetLocals == [t |-> "get", rev |-> Absent, updated_at |-> Absent,
              state |-> Absent, history |-> Absent]

\* line 125: an unknown path is answered without the lock
do_GET_notfound(t) ==
    /\ pc[t] = "get"
    /\ req[t].path \notin GetPaths
    /\ resp' = [resp EXCEPT ![t] = ErrorResponse(404)]
    /\ pc' = [pc EXCEPT ![t] = "return"]
    /\ UNCHANGED <<STORE, LOCK, file, tmp, clock, req, loc, nreq, boots, initFile, loaded,
                   log, persisted, lastAck,
                   served, fixed>>

\* variant: the read is not guarded by LOCK
do_GET_acquire_unguarded(t) ==
    /\ pc[t] = "get"
    /\ req[t].path \in GetPaths
    /\ loc' = [loc EXCEPT ![t] = GetLocals]
    /\ pc' = [pc EXCEPT ![t] =
                IF req[t].path = "/api/history" THEN "get_history" ELSE "get_rev"]
    /\ UNCHANGED <<STORE, LOCK, file, tmp, clock, req, resp, nreq, boots,
                   initFile, loaded, log, persisted, lastAck,
                   served, fixed>>

\* lines 103, 110, 122: with LOCK
do_GET_acquire(t) ==
    /\ pc[t] = "get"
    /\ req[t].path \in GetPaths
    /\ LOCK = Free
    /\ LOCK' = t
    /\ loc' = [loc EXCEPT ![t] = GetLocals]
    /\ pc' = [pc EXCEPT ![t] =
                IF req[t].path = "/api/history" THEN "get_history" ELSE "get_rev"]
    /\ UNCHANGED <<STORE, file, tmp, clock, req, resp, nreq, boots, initFile, loaded, log,
                   persisted, lastAck,
                   served, fixed>>

\* lines 106, 115: STORE.get("rev", 0)
do_GET_read_rev(t) ==
    /\ pc[t] = "get_rev"
    /\ loc' = [loc EXCEPT ![t].rev = JInt(STORE.rev)]
    /\ pc' = [pc EXCEPT ![t] = "get_updated_at"]
    /\ UNCHANGED <<STORE, LOCK, file, tmp, clock, req, resp, nreq, boots, initFile, loaded,
                   log, persisted, lastAck,
                   served, fixed>>

\* lines 106, 116: STORE.get("updated_at", "")
do_GET_read_updated_at(t) ==
    /\ pc[t] = "get_updated_at"
    /\ loc' = [loc EXCEPT ![t].updated_at = JStr(STORE.updated_at)]
    /\ pc' = [pc EXCEPT ![t] =
                IF req[t].path = "/api/state" THEN "get_state" ELSE "get_send"]
    /\ UNCHANGED <<STORE, LOCK, file, tmp, clock, req, resp, nreq, boots, initFile, loaded,
                   log, persisted, lastAck,
                   served, fixed>>

\* line 117: STORE.get("state", {})
do_GET_read_state(t) ==
    /\ pc[t] = "get_state"
    /\ loc' = [loc EXCEPT ![t].state = STORE.state]
    /\ pc' = [pc EXCEPT ![t] = "get_send"]
    /\ UNCHANGED <<STORE, LOCK, file, tmp, clock, req, resp, nreq, boots, initFile, loaded,
                   log, persisted, lastAck,
                   served, fixed>>

\* variant: the history is taken out of STORE when it is read
do_GET_read_history_consuming(t) ==
    /\ pc[t] = "get_history"
    /\ loc' = [loc EXCEPT ![t].history = JList(STORE.history)]
    /\ STORE' = [STORE EXCEPT !.history = <<>>]
    /\ pc' = [pc EXCEPT ![t] = "get_send"]
    /\ UNCHANGED <<LOCK, file, tmp, clock, req, resp, nreq, boots, initFile,
                   loaded, log, persisted, lastAck, served, fixed>>

\* line 123: STORE.get("history", [])
do_GET_read_history(t) ==
    /\ pc[t] = "get_history"
    /\ loc' = [loc EXCEPT ![t].history = JList(STORE.history)]
    /\ pc' = [pc EXCEPT ![t] = "get_send"]
    /\ UNCHANGED <<STORE, LOCK, file, tmp, clock, req, resp, nreq, boots, initFile, loaded,
                   log, persisted, lastAck,
                   served, fixed>>

\* lines 104, 111, 123: _send_json(200, payload)
do_GET_send(t) ==
    /\ pc[t] = "get_send"
    /\ resp' = [resp EXCEPT ![t] =
                  Response(200, loc[t].rev, loc[t].updated_at, loc[t].state,
                           loc[t].history)]
    /\ served' = IF audit /\ loc[t].rev.t = "int"
                  THEN Append(served, Served(loc[t].rev, loc[t].state))
                  ELSE served
    /\ pc' = [pc EXCEPT ![t] = "get_exit"]
    /\ UNCHANGED <<STORE, LOCK, file, tmp, clock, req, loc, nreq, boots, initFile, loaded,
                   log, persisted, lastAck,
                   fixed>>

\* the with block ends: LOCK.release(), then return
do_GET_exit(t) ==
    /\ pc[t] = "get_exit"
    /\ LOCK' = IF LOCK = t THEN Free ELSE LOCK
    /\ Return(t)
    /\ UNCHANGED <<STORE, file, tmp, clock, nreq, boots, initFile, loaded, log, persisted,
                   lastAck,
                   served, fixed>>

\* lines 108, 120, 124-125, 131, 135: return after a response sent outside LOCK
handler_return(t) ==
    /\ pc[t] = "return"
    /\ Return(t)
    /\ UNCHANGED <<STORE, LOCK, file, tmp, clock, nreq, boots, initFile, loaded, log,
                   persisted, lastAck,
                   served, fixed>>

\* -------------------------------------------------------------- do_POST
\* lines 129-131
do_POST_notfound(t) ==
    /\ pc[t] = "post"
    /\ req[t].path # "/api/state"
    /\ resp' = [resp EXCEPT ![t] = ErrorResponse(404)]
    /\ pc' = [pc EXCEPT ![t] = "return"]
    /\ UNCHANGED <<STORE, LOCK, file, tmp, clock, req, loc, nreq, boots, initFile, loaded,
                   log, persisted, lastAck,
                   served, fixed>>

\* lines 132-135: the payload is refused
do_POST_reject(t) ==
    /\ pc[t] = "post"
    /\ req[t].path = "/api/state"
    /\ ~ValidPayload(read_json(req[t].body))
    /\ resp' = [resp EXCEPT ![t] = ErrorResponse(400)]
    /\ pc' = [pc EXCEPT ![t] = "return"]
    /\ UNCHANGED <<STORE, LOCK, file, tmp, clock, req, loc, nreq, boots, initFile, loaded,
                   log, persisted, lastAck,
                   served, fixed>>

\* lines 137-139: client, source, now
do_POST_prepare(t) ==
    /\ pc[t] = "post"
    /\ req[t].path = "/api/state"
    /\ ValidPayload(read_json(req[t].body))
    /\ LET data == read_json(req[t].body)
       IN loc' = [loc EXCEPT ![t] =
                    [t |-> "post",
                     state |-> data.state,
                     client |-> Truncate(PyStr(Get(data.client, JStr(ANON)))),
                     source |-> Truncate(PyStr(Get(data.source, JStr(EmptyStr)))),
                     now |-> iso_now(clock)]]
    /\ pc' = [pc EXCEPT ![t] = "post_lock"]
    /\ UNCHANGED <<STORE, LOCK, file, tmp, clock, req, resp, nreq, boots, initFile, loaded,
                   log, persisted, lastAck,
                   served, fixed>>

NoRev == 0 - 1

\* variant: the upsert does not wait for LOCK
do_POST_acquire_unguarded(t) ==
    /\ pc[t] = "post_lock"
    /\ LOCK' = t
    /\ log' = Append(log, [state |-> loc[t].state, at |-> loc[t].now,
                           client |-> loc[t].client,
                           source |-> loc[t].source, rev |-> NoRev])
    /\ pc' = [pc EXCEPT ![t] = "post_state"]
    /\ UNCHANGED <<STORE, file, tmp, clock, req, loc, resp, nreq, boots,
                   initFile, loaded, persisted, lastAck,
                   served, fixed>>

\* line 141: with LOCK
do_POST_acquire(t) ==
    /\ pc[t] = "post_lock"
    /\ LOCK = Free
    /\ LOCK' = t
    /\ log' = Append(log, [state |-> loc[t].state, at |-> loc[t].now,
                           client |-> loc[t].client,
                           source |-> loc[t].source, rev |-> NoRev])
    /\ pc' = [pc EXCEPT ![t] = "post_state"]
    /\ UNCHANGED <<STORE, file, tmp, clock, req, loc, resp, nreq, boots, initFile, loaded,
                   persisted, lastAck,
                   served, fixed>>

\* line 142: STORE["state"] = data["state"]
do_POST_set_state(t) ==
    /\ pc[t] = "post_state"
    /\ STORE' = [STORE EXCEPT !.state = loc[t].state]
    /\ pc' = [pc EXCEPT ![t] = "post_rev"]
    /\ UNCHANGED <<LOCK, file, tmp, clock, req, loc, resp, nreq, boots, initFile, loaded,
                   log, persisted, lastAck,
                   served, fixed>>

\* variant: the revision is derived from the length of the history
do_POST_set_rev_from_history(t) ==
    /\ pc[t] = "post_rev"
    /\ STORE' = [STORE EXCEPT !.rev = Len(STORE.history) + 1]
    /\ log' = [log EXCEPT ![Len(log)].rev = Len(STORE.history) + 1]
    /\ pc' = [pc EXCEPT ![t] = "post_updated_at"]
    /\ UNCHANGED <<LOCK, file, tmp, clock, req, loc, resp, nreq, boots,
                   initFile, loaded, persisted, lastAck,
                   served, fixed>>

\* line 143: STORE["rev"] = int(STORE.get("rev", 0)) + 1
do_POST_set_rev(t) ==
    /\ pc[t] = "post_rev"
    /\ STORE' = [STORE EXCEPT !.rev = STORE.rev + 1]
    /\ log' = [log EXCEPT ![Len(log)].rev = STORE.rev + 1]
    /\ pc' = [pc EXCEPT ![t] = "post_updated_at"]
    /\ UNCHANGED <<LOCK, file, tmp, clock, req, loc, resp, nreq, boots, initFile, loaded,
                   persisted, lastAck,
                   served, fixed>>

\* line 144: STORE["updated_at"] = now
do_POST_set_updated_at(t) ==
    /\ pc[t] = "post_updated_at"
    /\ STORE' = [STORE EXCEPT !.updated_at = loc[t].now]
    /\ pc' = [pc EXCEPT ![t] = "post_history"]
    /\ UNCHANGED <<LOCK, file, tmp, clock, req, loc, resp, nreq, boots, initFile, loaded,
                   log, persisted, lastAck,
                   served, fixed>>

\* line 148: hist.insert(0, entry)
insert_history(hist, entry) == <<entry>> \o hist

\* variant: the surplus is deleted at the head, del hist[:-200]
trim_history_from_head(hist) ==
    IF Len(hist) > HISTORY_MAX
    THEN SubSeq(hist, Len(hist) - HISTORY_MAX + 1, Len(hist))
    ELSE hist

\* variant: the cap is tested one entry too late
trim_history_off_by_one(hist) ==
    IF Len(hist) > HISTORY_MAX + 1 THEN SubSeq(hist, 1, HISTORY_MAX) ELSE hist

\* lines 149-150: if len(hist) > 200: del hist[200:]
trim_history(hist) ==
    IF Len(hist) > HISTORY_MAX THEN SubSeq(hist, 1, HISTORY_MAX) ELSE hist

\* lines 145-148: hist is STORE["history"] itself, changed in place
do_POST_insert_history(t) ==
    /\ pc[t] = "post_history"
    /\ STORE' = [STORE EXCEPT !.history =
                   insert_history(STORE.history,
                      HistoryEntry(STORE.rev, loc[t].now, loc[t].client,
                                   loc[t].source))]
    /\ pc' = [pc EXCEPT ![t] = "post_trim"]
    /\ UNCHANGED <<LOCK, file, tmp, clock, req, loc, resp, nreq, boots, initFile, loaded,
                   log, persisted, lastAck,
                   served, fixed>>

\* lines 149-151
do_POST_trim_history(t) ==
    /\ pc[t] = "post_trim"
    /\ STORE' = [STORE EXCEPT !.history = trim_history(STORE.history)]
    /\ pc' = [pc EXCEPT ![t] = "write_open"]
    /\ UNCHANGED <<LOCK, file, tmp, clock, req, loc, resp, nreq, boots, initFile, loaded,
                   log, persisted, lastAck,
                   served, fixed>>

\* ---------------------------------------------------------- _write_store
\* variant: the snapshot is written over STORE_PATH itself
write_store_open_in_place(t) ==
    /\ pc[t] = "write_open"
    /\ file' = FileTruncated
    /\ pc' = [pc EXCEPT ![t] = "write_dump"]
    /\ UNCHANGED <<STORE, LOCK, tmp, clock, req, loc, resp, nreq, boots,
                   initFile, loaded, log, persisted, lastAck,
                   served, fixed>>

\* line 60: open(tmp, "w") creates or empties the temp file
write_store_open(t) ==
    /\ pc[t] = "write_open"
    /\ tmp' = FileTruncated
    /\ pc' = [pc EXCEPT ![t] = "write_dump"]
    /\ UNCHANGED <<STORE, LOCK, file, clock, req, loc, resp, nreq, boots, initFile, loaded,
                   log, persisted, lastAck,
                   served, fixed>>

\* line 61: json.dump(store, fh), and the file is closed
write_store_dump(t) ==
    /\ pc[t] = "write_dump"
    /\ tmp' = FileJson(Dump(STORE))
    /\ pc' = [pc EXCEPT ![t] = "write_replace"]
    /\ UNCHANGED <<STORE, LOCK, file, clock, req, loc, resp, nreq, boots, initFile, loaded,
                   log, persisted, lastAck,
                   served, fixed>>

\* variant: the temp file is never renamed into place
write_store_replace_unrenamed(t) ==
    /\ pc[t] = "write_replace"
    /\ persisted' = STORE
    /\ lastAck' = NoAck
    /\ pc' = [pc EXCEPT ![t] = "post_send"]
    /\ UNCHANGED <<STORE, LOCK, file, tmp, clock, req, loc, resp, nreq, boots,
                   initFile, loaded, log,
                   served, fixed>>

\* line 62: os.replace(tmp, STORE_PATH)
write_store_replace(t) ==
    /\ pc[t] = "write_replace"
    /\ file' = tmp
    /\ tmp' = FileMissing
    /\ persisted' = STORE
    /\ lastAck' = NoAck
    /\ pc' = [pc EXCEPT ![t] = "post_send"]
    /\ UNCHANGED <<STORE, LOCK, clock, req, loc, resp, nreq, boots, initFile, loaded, log,
                   served, fixed>>

\* lines 60-62: open, write or replace raises OSError (disk full, permissions)
write_store_raise(t) ==
    /\ pc[t] \in {"write_open", "write_dump", "write_replace"}
    /\ pc' = [pc EXCEPT ![t] = "raise"]
    /\ UNCHANGED <<STORE, LOCK, file, tmp, clock, req, loc, resp, nreq, boots,
                   initFile, loaded, log, persisted, lastAck,
                   served, fixed>>

\* lines 153-156: _send_json(200, {"ok", "rev", "updated_at"})
do_POST_send(t) ==
    /\ pc[t] = "post_send"
    /\ resp' = [resp EXCEPT ![t] =
                  Response(200, JInt(STORE.rev), JStr(STORE.updated_at), Absent,
                           Absent)]
    /\ lastAck' = Triple(STORE)
    /\ served' = IF audit
                  THEN Append(served, Served(JInt(STORE.rev), STORE.state))
                  ELSE served
    /\ pc' = [pc EXCEPT ![t] = "post_exit"]
    /\ UNCHANGED <<STORE, LOCK, file, tmp, clock, req, loc, nreq, boots, initFile, loaded,
                   log, persisted,
                   fixed>>

\* the with block of line 141 ends: LOCK.release()
do_POST_exit(t) ==
    /\ pc[t] = "post_exit"
    /\ LOCK' = IF LOCK = t THEN Free ELSE LOCK
    /\ Return(t)
    /\ UNCHANGED <<STORE, file, tmp, clock, nreq, boots, initFile, loaded, log, persisted,
                   lastAck,
                   served, fixed>>

\* line 81: wfile.write raises (the client went away)
send_json_raise(t) ==
    /\ pc[t] \in {"get_send", "post_send"}
    /\ pc' = [pc EXCEPT ![t] = "raise"]
    /\ UNCHANGED <<STORE, LOCK, file, tmp, clock, req, loc, resp, nreq, boots,
                   initFile, loaded, log, persisted, lastAck,
                   served, fixed>>

\* variant: LOCK is released on the normal path only
with_LOCK_unwind_leaking(t) ==
    /\ pc[t] = "raise"
    /\ Return(t)
    /\ UNCHANGED <<STORE, LOCK, file, tmp, clock, nreq, boots, initFile,
                   loaded, log, persisted, lastAck, served, fixed>>

\* an exception leaves the with block: LOCK.release(); the handler has no
\* except clause, the connection is closed without a response
with_LOCK_unwind(t) ==
    /\ pc[t] = "raise"
    /\ LOCK' = IF LOCK = t THEN Free ELSE LOCK
    /\ Return(t)
    /\ UNCHANGED <<STORE, file, tmp, clock, nreq, boots, initFile, loaded, log, persisted,
                   lastAck,
                   served, fixed>>

\* ------------------------------------------------------ process lifecycle
\* the process is killed and started again: line 65, STORE = _read_store()
Restart ==
    /\ boots < MaxRestarts
    /\ boots' = boots + 1
    /\ STORE' = read_store(file, clock)
    /\ LOCK' = Free
    /\ pc' = [t \in Threads |-> "idle"]
    /\ req' = [t \in Threads |-> NoRequest]
    /\ loc' = [t \in Threads |-> NoLoc]
    /\ resp' = [t \in Threads |-> NoResp]
    /\ loaded' = read_store(file, clock)
    /\ log' = <<>>
    /\ persisted' = read_store(file, clock)
    /\ UNCHANGED <<file, tmp, clock, nreq, initFile, lastAck,
                   served, fixed>>

do_GET(t) ==
    \/ do_GET_notfound(t)
    \/ do_GET_acquire(t)
    \/ do_GET_read_rev(t)
    \/ do_GET_read_updated_at(t)
    \/ do_GET_read_state(t)
    \/ do_GET_read_history(t)
    \/ do_GET_send(t)
    \/ do_GET_exit(t)

do_POST(t) ==
    \/ do_POST_notfound(t)
    \/ do_POST_reject(t)
    \/ do_POST_prepare(t)
    \/ do_POST_acquire(t)
    \/ do_POST_set_state(t)
    \/ do_POST_set_rev(t)
    \/ do_POST_set_updated_at(t)
    \/ do_POST_insert_history(t)
    \/ do_POST_trim_history(t)
    \/ write_store_open(t)
    \/ write_store_dump(t)
    \/ write_store_replace(t)
    \/ do_POST_send(t)
    \/ do_POST_exit(t)

Next ==
    \/ Tick
    \/ Restart
    \/ \E t \in Threads :
         \/ Receive(t)
         \/ do_GET(t)
         \/ do_POST(t)
         \/ write_store_raise(t)
         \/ send_json_raise(t)
         \/ with_LOCK_unwind(t)
         \/ handler_return(t)

Spec == Init /\ [][Next]_vars

\* ------------------------------------------------------ fair scheduling
\* one step of the handler thread t
Step(t) ==
    \/ do_GET(t)
    \/ do_POST(t)
    \/ write_store_raise(t)
    \/ send_json_raise(t)
    \/ with_LOCK_unwind(t)
    \/ handler_return(t)

FairFiles == { FileMissing, WrittenFile(1, 1) }

InitFair ==
    /\ \E f \in FairFiles : Boot(f)
    /\ audit = FALSE
    /\ NormalizeIdle

\* every handler thread that can take a step eventually takes one
SpecFair ==
    /\ InitFair
    /\ [][Next]_vars
    /\ \A t \in Threads : WF_vars(Step(t))

\* ------------------------------------------- the normalisation functions
\* decoded values _normalize_store can be given
RawRevs ==
    { Absent, JNull, JInt(0), JInt(3), JStr(MkStr("dec", 4)),
      JStr(MkStr("rep", 3)), JList(<<>>) }
RawUpdatedAts == { Absent, JStr(EmptyStr), JStr(iso_now(0)), JInt(7) }
RawStates == { Absent, JObj(0), JObj(1), JList(<<>>), JStr(MkStr("rep", 1)) }
RawHistories ==
    { Absent, JNull, JStr(MkStr("rep", 2)), JList(<<>>),
      JList(MkHistory(1, 3)),
      JList(MkHistory(HISTORY_MAX, HISTORY_MAX)),
      JList(MkHistory(HISTORY_MAX + 1, HISTORY_MAX + 1)) }

RawValues ==
    { JNull, JList(<<>>), JStr(MkStr("rep", 3)), JInt(5) }
    \cup { StoreDict(r, u, st, h) :
             r \in RawRevs, u \in RawUpdatedAts, st \in RawStates,
             h \in RawHistories }

NormalizeFiles ==
    { FileMissing, FileTruncated } \cup { FileJson(v) : v \in RawValues }

\* the variables of the running server
program == <<STORE, LOCK, file, tmp, pc, req, loc, resp, nreq, boots,
             initFile, loaded, log, persisted, lastAck, served>>

InitNormalize ==
    /\ Boot(FileMissing)
    /\ audit = FALSE
    /\ nfile \in NormalizeFiles
    /\ nnorm = <<>>
    /\ nload = NotLoaded

\* _normalize_store(json.load(fh))
normalize_call ==
    /\ nnorm = <<>>
    /\ nfile.t = "json"
    /\ nnorm' = <<normalize_store(nfile.v, clock)>>
    /\ UNCHANGED <<program, clock, audit, nfile, nload>>

\* _normalize_store applied to the snapshot it returned
normalize_again ==
    /\ Len(nnorm) = 1
    /\ nnorm[1].ok
    /\ nnorm' = Append(nnorm, normalize_store(Dump(nnorm[1].val), clock))
    /\ UNCHANGED <<program, clock, audit, nfile, nload>>

\* _read_store()
read_store_call ==
    /\ nload = NotLoaded
    /\ nload' = read_store(nfile, clock)
    /\ UNCHANGED <<program, clock, audit, nfile, nnorm>>

NextNormalize ==
    \/ Tick
    \/ normalize_call
    \/ normalize_again
    \/ read_store_call

SpecNormalize == InitNormalize /\ [][NextNormalize]_vars

\* the same program, started on a backing file that exists, with the
\* responses it serves recorded
AuditFiles ==
    { WrittenFile(1, 1),
      FileJson(StoreDict(Absent, Absent, Absent, Absent)) }

InitAudit ==
    /\ \E f \in AuditFiles : Boot(f)
    /\ audit = TRUE
    /\ NormalizeIdle

SpecAudit == InitAudit /\ [][Next]_vars


\* ------------------------------------------------------------ properties
base == loaded.rev

\* the upserts that have been assigned a revision since the last start
Applied == {i \in DOMAIN log : log[i].rev # NoRev}

IsUpsert(t) == req[t].m = "POST" /\ req[t].path = "/api/state"
IsFetch(t) == req[t].m = "GET" /\ req[t].path = "/api/state"
Acked(t) == IsUpsert(t) /\ resp[t].status = 200

\* C1: when persisting fails during an upsert, the in-memory snapshot
\* (revision, document, updated_at, history) is the last persisted one.
C1_FailedPersistKeepsPersisted ==
    \A t \in Threads :
        (pc[t] = "raise" /\ IsUpsert(t)) =>
            /\ Triple(STORE) = Triple(persisted)
            /\ STORE.history = persisted.history

\* C2: whenever an upsert has sent its success response, the backing file
\* holds exactly the in-memory snapshot that produced the response, and the
\* acknowledged revision is the one in the file.
C2_DurableBeforeAck ==
    \A t \in Threads :
        Acked(t) =>
            /\ file = FileJson(Dump(STORE))
            /\ file.v.rev = resp[t].rev
            /\ file.v.updated_at = resp[t].updated_at

C2_Witness ==
    \E t \in Threads : Acked(t) /\ pc[t] = "post_exit" /\ file # initFile

\* C3: from a fresh store the revision equals the number of upserts applied;
\* an upsert raises it by exactly 1 and no other request changes it.
C3_RevisionCounts ==
    /\ [](base = 0 => STORE.rev = Cardinality(Applied))
    /\ [][ (boots' = boots /\ STORE'.rev # STORE.rev) =>
             /\ STORE'.rev = STORE.rev + 1
             /\ \E t \in Threads :
                   /\ IsUpsert(t)
                   /\ pc[t] = "post_rev"
                   /\ pc'[t] = "post_updated_at" ]_vars

C3_Witness ==
    /\ base = 0
    /\ STORE.rev = 2
    /\ Len(log) = 2
    /\ LOCK = Free

\* C4: concurrent upserts are linearized by LOCK: the i-th upsert granted
\* the lock gets revision base + i (distinct, contiguous, in grant order),
\* that is the revision it acknowledges, and the document is the input of
\* the upsert granted the lock last.
C4_Linearized ==
    /\ \A i \in DOMAIN log :
          /\ log[i].rev \in {NoRev, base + i}
          /\ log[i].rev = NoRev => i = Len(log)
    /\ \A t \in Threads :
          Acked(t) => resp[t].rev = JInt(base + Len(log))
    /\ (log # <<>> /\ \A t \in Threads : pc[t] # "post_state") =>
          STORE.state = log[Len(log)].state

C4_Witness ==
    \E t \in Threads :
        /\ Acked(t)
        /\ Len(log) = 2
        /\ resp[t].rev = JInt(base + 2)
        /\ log[1].state # log[2].state
        /\ STORE.state = log[2].state

\* the snapshots that exist: the loaded one and the one of every upsert
Snapshots ==
    {Triple(loaded)} \cup
    { [t |-> "triple", rev |-> log[i].rev, updated_at |-> log[i].at,
       state |-> log[i].state] : i \in DOMAIN log }

FetchedTriple(r) ==
    [t |-> "triple", rev |-> r.rev.v, updated_at |-> r.updated_at.v,
     state |-> r.state]

\* C5: the (revision, updated_at, document) a fetch returns is the triple of
\* one single upsert or the loaded snapshot, never a mix of two.
C5_FetchNotTorn ==
    \A t \in Threads :
        (IsFetch(t) /\ resp[t].status = 200) =>
            FetchedTriple(resp[t]) \in Snapshots

C5_Witness ==
    \E t \in Threads :
        /\ IsFetch(t)
        /\ resp[t].status = 200
        /\ resp[t].rev = JInt(base + 1)
        /\ resp[t].state = log[1].state
        /\ resp[t].state # loaded.state

\* C6: the backing file is always a complete file: the one the first start
\* found, or the complete snapshot of the last completed rename, which is
\* also what a start after a crash loads.
C6_FileAlwaysComplete ==
    \/ file = initFile
    \/ file = FileJson(Dump(persisted))

C6_Witness ==
    /\ boots > 0
    /\ tmp = FileTruncated
    /\ file # initFile
    /\ file = FileJson(Dump(STORE))

\* C7: a start after a kill that follows an acknowledged upsert (and comes
\* before a later upsert replaced the file) loads the acknowledged
\* revision, document and updated_at.
C7_AckSurvivesRestart ==
    (boots > 0 /\ log = <<>> /\ lastAck # NoAck) => Triple(STORE) = lastAck

C7_Witness ==
    /\ boots > 0
    /\ log = <<>>
    /\ lastAck # NoAck
    /\ lastAck.updated_at # iso_now(clock)

\* the upsert holding LOCK has raised the revision, not yet the history
MidUpsert == \E t \in Threads : pc[t] \in {"post_updated_at", "post_history"}

\* C8: whenever history is non-empty, history[0].rev is the revision.
C8_HeadIsRevision ==
    (STORE.history # <<>> /\ ~MidUpsert) => STORE.history[1].rev = STORE.rev

\* C9: outside lines 148-150 of an upsert the history holds at most 200
\* entries, and so does every history a client is sent.
C9_HistoryCapped ==
    /\ (\A t \in Threads : pc[t] # "post_trim") =>
          Len(STORE.history) <= HISTORY_MAX
    /\ \A t \in Threads :
          resp[t].history.t = "list" => Len(resp[t].history.v) <= HISTORY_MAX

C9_Witness ==
    \E t \in Threads :
        /\ pc[t] = "write_open"
        /\ Len(loaded.history) = HISTORY_MAX
        /\ Len(STORE.history) = HISTORY_MAX
        /\ STORE.history[HISTORY_MAX] = loaded.history[HISTORY_MAX - 1]

\* the request body is no object, or its state field is no object
NotObjectState(body) ==
    \/ body.t # "body"
    \/ body.state.t # "obj"

\* C10: an upsert whose state field (or whole body) is not an object is
\* answered 400 and changes neither the snapshot nor the files.
C10_RejectLeavesStore ==
    [][ \A t \in Threads :
          (/\ pc[t] = "post"
           /\ req[t].path = "/api/state"
           /\ NotObjectState(req[t].body)
           /\ pc'[t] # "post"
           /\ boots' = boots) =>
              /\ resp'[t] = ErrorResponse(400)
              /\ pc'[t] = "return"
              /\ UNCHANGED <<STORE, LOCK, file, tmp, log,
                   served, fixed>> ]_vars

C10_Witness ==
    \E t \in Threads :
        /\ resp[t] = ErrorResponse(400)
        /\ req[t].body.t = "body"
        /\ req[t].body.state.t = "list"
        /\ STORE = loaded


\* C11: a revision served later is never lower than one served earlier, and
\* one revision number is never served with two different documents.
C11_ServedMonotone ==
    \A i, j \in DOMAIN served :
        i < j =>
            /\ served[i].rev <= served[j].rev
            /\ (/\ served[i].rev = served[j].rev
                /\ served[i].state.t # "absent"
                /\ served[j].state.t # "absent") =>
                   served[i].state = served[j].state


\* what the claim expects of each field of a mapping
ExpectedRev(raw) ==
    IF raw.rev.t = "int" THEN raw.rev.v
    ELSE IF raw.rev.t = "str" /\ raw.rev.v.k = "dec" THEN raw.rev.v.n
    ELSE 0
ExpectedState(raw) == IF raw.state.t = "obj" THEN raw.state ELSE JObj(0)
ExpectedHistory(raw) ==
    IF raw.history.t = "list"
    THEN SubSeq(raw.history.v, 1, Min(Len(raw.history.v), HISTORY_MAX))
    ELSE <<>>

\* C12: _normalize_store never raises on a mapping and coerces each field
\* on its own: an invalid rev becomes 0 while state and history are kept,
\* so a file with an invalid rev still loads its state and history.
C12_FieldsCoercedAlone ==
    /\ (nnorm # <<>> /\ nfile.v.t = "dict") =>
          /\ nnorm[1].ok
          /\ nnorm[1].val.rev = ExpectedRev(nfile.v)
          /\ nnorm[1].val.state = ExpectedState(nfile.v)
          /\ nnorm[1].val.history = ExpectedHistory(nfile.v)
    /\ (nload # NotLoaded /\ nfile.t = "json" /\ nfile.v.t = "dict") =>
          /\ nload.rev = ExpectedRev(nfile.v)
          /\ nload.state = ExpectedState(nfile.v)
          /\ nload.history = ExpectedHistory(nfile.v)

DefaultShaped(st) ==
    /\ st.rev = 0
    /\ st.state = JObj(0)
    /\ st.history = <<>>
    /\ st.updated_at \in {iso_now(c) : c \in 0..clock}

NoObject(f) == f.t \in {"missing", "trunc"} \/ f.v.t # "dict"
NoField(f) ==
    f.t = "json" /\ f.v = StoreDict(Absent, Absent, Absent, Absent)

\* C13: _read_store of a missing, unreadable or non-object file, and
\* _normalize_store of a non-object or of an object without any expected
\* field, return the default snapshot (rev 0, {} and []) and do not raise.
C13_LoadFailSoft ==
    /\ (nload # NotLoaded /\ (NoObject(nfile) \/ NoField(nfile))) =>
          DefaultShaped(nload)
    /\ (nnorm # <<>> /\ (NoObject(nfile) \/ NoField(nfile))) =>
          /\ nnorm[1].ok
          /\ DefaultShaped(nnorm[1].val)

C13_Witness ==
    /\ nfile = FileJson(JList(<<>>))
    /\ nload # NotLoaded
    /\ nnorm # <<>>
    /\ clock > 0

WellFormed(v) ==
    /\ v.t = "dict"
    /\ v.rev.t = "int"
    /\ v.updated_at.t = "str"
    /\ StrLen(v.updated_at.v) > 0
    /\ v.state.t = "obj"
    /\ v.history.t = "list"
    /\ Len(v.history.v) <= HISTORY_MAX

\* C14: _normalize_store returns a well-formed snapshot unchanged, and
\* applied to its own result it returns that result.
C14_NormalizeIdempotent ==
    /\ (nnorm # <<>> /\ WellFormed(nfile.v)) =>
          /\ nnorm[1].ok
          /\ Dump(nnorm[1].val) = nfile.v
    /\ Len(nnorm) = 2 => nnorm[2] = nnorm[1]

C14_Witness ==
    /\ Len(nnorm) = 2
    /\ WellFormed(nfile.v)
    /\ Len(nfile.v.history.v) = HISTORY_MAX
    /\ nnorm[2] = nnorm[1]


\* C15: no step of a ping, fetch or history fetch changes the snapshot,
\* the backing file or the temp file.
C15_ReadsChangeNothing ==
    [][ \A t \in Threads :
          (req[t].m = "GET" /\ pc'[t] # pc[t] /\ boots' = boots) =>
              UNCHANGED <<STORE, file, tmp>> ]_vars

C15_Witness ==
    \E t, u \in Threads :
        /\ req[t].path = "/api/history"
        /\ pc[t] = "get_exit"
        /\ resp[t].history = JList(STORE.history)
        /\ STORE.history # <<>>
        /\ pc[u] = "post_lock"

\* the entries of the upserts applied since the last start, newest first
NewestFirst ==
    LET k == Cardinality(Applied)
    IN [i \in 1..k |->
          HistoryEntry(log[k - i + 1].rev, log[k - i + 1].at,
                       log[k - i + 1].client, log[k - i + 1].source)]

HistorySettled ==
    \A t \in Threads : pc[t] \notin {"post_updated_at", "post_history", "post_trim"}

\* C16: the history is the newest-first window of the 200 most recent
\* entries: those of the upserts applied, each with its client and source,
\* in front of the loaded ones; from a fresh store the revisions run
\* n, n-1, ..., 1; a change prepends one entry or drops the tail only.
C16_HistoryWindow ==
    /\ [](HistorySettled =>
            LET all == NewestFirst \o loaded.history
            IN /\ STORE.history = SubSeq(all, 1, Min(Len(all), HISTORY_MAX))
               /\ (base = 0 /\ loaded.history = <<>>) =>
                     \A i \in DOMAIN STORE.history :
                         STORE.history[i].rev = STORE.rev - i + 1)
    /\ [][ (boots' = boots /\ STORE'.history # STORE.history) =>
             \/ /\ STORE'.history # <<>>
                /\ Tail(STORE'.history) = STORE.history
             \/ /\ Len(STORE.history) > HISTORY_MAX
                /\ STORE'.history = SubSeq(STORE.history, 1, HISTORY_MAX) ]_vars

C16_Witness ==
    /\ LOCK = Free
    /\ Len(log) = 2
    /\ Len(loaded.history) = HISTORY_MAX - 1
    /\ Len(STORE.history) = HISTORY_MAX
    /\ STORE.history[1].client = MkStr("rep", FIELD_MAX)
    /\ STORE.history[2].client = ANON

\* C17: a history entry with a higher revision than the entry after it
\* never carries an earlier timestamp than that entry.
C17_TimestampsFollowRevisions ==
    \A i \in 1..(Len(STORE.history) - 1) :
        STORE.history[i].rev > STORE.history[i + 1].rev =>
            STORE.history[i].at.n >= STORE.history[i + 1].at.n

Waiting(t) ==
    \/ pc[t] = "post_lock"
    \/ pc[t] = "get" /\ req[t].path \in GetPaths

\* C18: whoever holds LOCK releases it, also when _write_store or
\* _send_json raises; a waiting request gets the lock (or the process is
\* restarted); while a request is in a handler some handler can step.
C18_GuardReleased ==
    /\ \A t \in Threads : (LOCK = t) ~> (LOCK # t)
    /\ \A t \in Threads : Waiting(t) ~> (LOCK = t \/ pc[t] = "idle")
    /\ []((\E t \in Threads : pc[t] # "idle") =>
             ENABLED (\E t \in Threads : Step(t)))

C18_Witness ==
    \E t, u \in Threads :
        /\ pc[t] = "raise"
        /\ LOCK = t
        /\ pc[u] = "post_lock"

====
